---- MODULE Spec2Model ----
(***************************************************************************)
(* Model of src/config.rs of stackmate-core: WalletConfig::new,            *)
(* WalletConfig::new_offline, create_blockchain_client and _check_client.  *)
(*                                                                         *)
(* Text is modelled by TLA+ strings handled character by character         *)
(* (Len, SubSeq, \o), so substring search, replacement and splitting are   *)
(* computed as the Rust str methods compute them.  The bdk library is an   *)
(* opaque collaborator: what each of its calls returns is an input of the  *)
(* operation (the lib record), and every call made is appended to trace.   *)
(***************************************************************************)
EXTENDS Integers, Sequences, FiniteSets, TLC

VARIABLES call, ret, trace

vars == <<call, ret, trace>>

(***************************************************************************)
(* Bounds of the model.                                                    *)
(***************************************************************************)
\* A call's descriptor and node address are built from at most MaxFrags
\* fragments in total.
MaxFrags == 4

(***************************************************************************)
(* str methods                                                             *)
(***************************************************************************)
\* First position at or after `from` where pat occurs in s, 0 when there is none.
RECURSIVE FindFrom(_, _, _)
FindFrom(s, pat, from) ==
  IF from + Len(pat) - 1 > Len(s) THEN 0
  ELSE IF SubSeq(s, from, from + Len(pat) - 1) = pat THEN from
  ELSE FindFrom(s, pat, from + 1)

\* str::contains
Contains(s, pat) == FindFrom(s, pat, 1) # 0

\* str::replace: every non-overlapping occurrence, left to right.
RECURSIVE Replace(_, _, _)
Replace(s, pat, to) ==
  LET i == FindFrom(s, pat, 1) IN
  IF i = 0 THEN s
  ELSE SubSeq(s, 1, i - 1) \o to \o Replace(SubSeq(s, i + Len(pat), Len(s)), pat, to)

\* str::split(pat).collect::<Vec<&str>>()
RECURSIVE Split(_, _)
Split(s, pat) ==
  LET i == FindFrom(s, pat, 1) IN
  IF i = 0 THEN <<s>>
  ELSE <<SubSeq(s, 1, i - 1)>> \o Split(SubSeq(s, i + Len(pat), Len(s)), pat)

(***************************************************************************)
(* Values                                                                  *)
(***************************************************************************)
None == <<>>
Some(x) == <<x>>

DEFAULT == "default"
DEFAULT_TESTNET_NODE == "ssl://electrum.blockstream.info:60002"
DEFAULT_MAINNET_NODE == "ssl://electrum.blockstream.info:50002"

\* S5Error::new(kind, message), as an Err(..) value.
S5Error_new(kind, message) == [tag |-> "Err", kind |-> kind, message |-> message]

\* A vector index out of range: the thread panics, nothing is returned.
IndexPanic == [tag |-> "Panic", message |-> "index out of bounds"]

(***************************************************************************)
(* The bdk collaborator: what a call can return.                           *)
(***************************************************************************)
BdkErrors ==
  { [variant |-> "Electrum", inner |-> "IOError",  text |-> "electrum io failure"],
    [variant |-> "Electrum", inner |-> "Protocol", text |-> "electrum protocol error"],
    [variant |-> "Rpc",      inner |-> "Io",       text |-> "rpc io failure"],
    [variant |-> "Rpc",      inner |-> "JsonRpc",  text |-> "rpc json error"] }

FromConfigResults == {[ok |-> TRUE]} \cup {[ok |-> FALSE, err |-> e] : e \in BdkErrors}

WalletNameResults ==
  { [ok |-> TRUE, name |-> "wallet_name"],
    [ok |-> FALSE, text |-> "descriptor error"] }

EstimateFeeResults ==
  { [ok |-> TRUE], [ok |-> FALSE, text |-> "fee estimation failed"] }

(***************************************************************************)
(* create_blockchain_client                                                *)
(***************************************************************************)
\* Returns [ret, trace]: ret is Ok(AnyBlockchain) or Err(S5Error).
create_blockchain_client(config, lib) ==
  LET r == lib.from_config IN
  IF config.variant = "Electrum" THEN
    [ trace |-> << [fn |-> "ElectrumBlockchain::from_config", arg |-> config.conf, result |-> r] >>,
      ret |->
        IF r.ok THEN [tag |-> "Ok", client |-> [variant |-> "Electrum", conf |-> config.conf]]
        ELSE IF r.err.variant = "Electrum" THEN
          IF r.err.inner = "IOError" THEN S5Error_new("Network", r.err.text)
          ELSE S5Error_new("Internal", r.err.text)
        ELSE S5Error_new("Internal", r.err.text) ]
  ELSE
    [ trace |-> << [fn |-> "RpcBlockchain::from_config", arg |-> config.conf, result |-> r] >>,
      ret |->
        IF r.ok THEN [tag |-> "Ok", client |-> [variant |-> "Rpc", conf |-> config.conf]]
        ELSE IF r.err.variant = "Rpc" THEN
          IF r.err.inner = "Io" THEN S5Error_new("Network", r.err.text)
          ELSE S5Error_new("Internal", r.err.text)
        ELSE S5Error_new("Internal", r.err.text) ]

\* The call of create_blockchain_client as the callers make it: the call itself is
\* recorded before what it does.
call_create_blockchain_client(config, lib) ==
  LET c == create_blockchain_client(config, lib) IN
  [ ret |-> c.ret,
    trace |-> << [fn |-> "create_blockchain_client", arg |-> config, result |-> c.ret] >> \o c.trace ]

(***************************************************************************)
(* WalletConfig::new                                                       *)
(***************************************************************************)
deposit_desc(descriptor) == Replace(descriptor, "/*", "/0/*")

\* Mutant: the change branch derived with the deposit marker.
change_desc_branch0(descriptor) == Replace(descriptor, "/*", "/0/*")

change_desc(descriptor) == Replace(descriptor, "/*", "/1/*")

\* Mutant: only the public-key marker is looked for.
network_xpub_only(descriptor) ==
  IF Contains(descriptor, "xpub") THEN "Bitcoin" ELSE "Testnet"

network(descriptor) ==
  IF Contains(descriptor, "xpub") \/ Contains(descriptor, "xprv")
  THEN "Bitcoin" ELSE "Testnet"

\* Mutant: the two default endpoints exchanged.
resolved_node_address_swapped(node_address, net) ==
  IF Contains(node_address, DEFAULT)
  THEN IF net = "Bitcoin" THEN DEFAULT_TESTNET_NODE ELSE DEFAULT_MAINNET_NODE
  ELSE node_address

\* The shadowing `let node_address = ...`.
resolved_node_address(node_address, net) ==
  IF Contains(node_address, DEFAULT)
  THEN IF net = "Bitcoin" THEN DEFAULT_MAINNET_NODE ELSE DEFAULT_TESTNET_NODE
  ELSE node_address

\* The branch taken by the if / else if / else chain on the address.
new_protocol(node_address) ==
  IF Contains(node_address, "electrum") THEN "Electrum"
  ELSE IF Contains(node_address, "http") THEN "Rpc"
  ELSE "Invalid"

new_electrum_config(node_address, socks5) ==
  IF socks5 = None
  THEN [url |-> node_address, socks5 |-> None, retry |-> 1, timeout |-> Some(5), stop_gap |-> 1000]
  ELSE [url |-> node_address, socks5 |-> socks5, retry |-> 1, timeout |-> None, stop_gap |-> 1000]

\* `let auth = ...`: Auth::None, Auth::UserPass, or the panic of an index out of range.
new_auth(parts) ==
  IF Len(parts) < 2 THEN IndexPanic
  ELSE IF parts[2] = "" THEN [tag |-> "None"]
  ELSE LET fields == Split(parts[2], ":") IN
       IF Len(fields) < 2 THEN IndexPanic
       ELSE [tag |-> "UserPass", username |-> fields[1], password |-> fields[2]]

\* The match on the client result and the Ok(WalletConfig {..}) of the relay branch.
new_electrum_result(descriptor, net, c) ==
  IF c.tag = "Ok"
  THEN [tag |-> "Ok", deposit_desc |-> deposit_desc(descriptor),
        change_desc |-> change_desc(descriptor), network |-> net,
        client |-> Some(c.client)]
  ELSE S5Error_new("Internal", c.message)

\* Mutant: a failed construction still yields a configuration, without a client.
new_rpc_result_partial(descriptor, net, c) ==
  [tag |-> "Ok", deposit_desc |-> deposit_desc(descriptor),
   change_desc |-> change_desc(descriptor), network |-> net,
   client |-> IF c.tag = "Ok" THEN Some(c.client) ELSE None]

\* The match on the client result and the Ok(WalletConfig {..}) of the full-node branch.
new_rpc_result(descriptor, net, c) ==
  IF c.tag = "Ok"
  THEN [tag |-> "Ok", deposit_desc |-> deposit_desc(descriptor),
        change_desc |-> change_desc(descriptor), network |-> net,
        client |-> Some(c.client)]
  ELSE S5Error_new("Internal", c.message)

\* Mutant: the invalid address reported as a Network error.
invalid_node_address_network == S5Error_new("Network", "Invalid Node Address.")

invalid_node_address == S5Error_new("Internal", "Invalid Node Address.")

\* Returns [ret, trace].
WalletConfig_new(descriptor, node_address, socks5, lib) ==
  LET net == network(descriptor)
      addr == resolved_node_address(node_address, net)
      proto == new_protocol(addr)
  IN
  IF proto = "Electrum" THEN
    LET config == [variant |-> "Electrum", conf |-> new_electrum_config(addr, socks5)]
        c == call_create_blockchain_client(config, lib)
    IN [ret |-> new_electrum_result(descriptor, net, c.ret), trace |-> c.trace]
  ELSE IF proto = "Rpc" THEN
    LET parts == Split(addr, "?auth=")
        auth == new_auth(parts)
    IN
    IF auth.tag = "Panic" THEN [ret |-> auth, trace |-> <<>>]
    ELSE
      LET w == lib.wallet_name
          wcall == [fn |-> "wallet_name_from_descriptor",
                    arg |-> [descriptor |-> descriptor,
                             change_descriptor |-> Some(change_desc(descriptor)),
                             network |-> net],
                    result |-> w]
      IN
      IF ~w.ok THEN [ret |-> S5Error_new("Internal", w.text), trace |-> <<wcall>>]
      ELSE
        LET config == [variant |-> "Rpc",
                       conf |-> [url |-> parts[1], auth |-> auth, network |-> net,
                                 wallet_name |-> w.name, skip_blocks |-> None]]
            c == call_create_blockchain_client(config, lib)
        IN [ret |-> new_rpc_result(descriptor, net, c.ret), trace |-> <<wcall>> \o c.trace]
  ELSE [ret |-> invalid_node_address, trace |-> <<>>]

(***************************************************************************)
(* WalletConfig::new_offline                                               *)
(***************************************************************************)
\* Mutant: the offline path derives both branches with the deposit marker.
WalletConfig_new_offline_same_branch(descriptor) ==
  [ tag |-> "Ok",
    deposit_desc |-> Replace(descriptor, "/*", "/0/*"),
    change_desc |-> Replace(descriptor, "/*", "/0/*"),
    network |-> IF Contains(descriptor, "xpub") \/ Contains(descriptor, "xprv")
                THEN "Bitcoin" ELSE "Testnet",
    client |-> None ]

WalletConfig_new_offline(descriptor) ==
  [ tag |-> "Ok",
    deposit_desc |-> Replace(descriptor, "/*", "/0/*"),
    change_desc |-> Replace(descriptor, "/*", "/1/*"),
    network |-> IF Contains(descriptor, "xpub") \/ Contains(descriptor, "xprv")
                THEN "Bitcoin" ELSE "Testnet",
    client |-> None ]

(***************************************************************************)
(* _check_client                                                           *)
(***************************************************************************)
\* Mutant: the "http" token tested before the relay token.
check_protocol_http_first(node_address) ==
  IF Contains(node_address, "http") THEN "Rpc"
  ELSE IF Contains(node_address, "electrum") THEN "Electrum"
  ELSE "Invalid"

check_protocol(node_address) ==
  IF Contains(node_address, "electrum") THEN "Electrum"
  ELSE IF Contains(node_address, "http") THEN "Rpc"
  ELSE "Invalid"

check_auth(parts) ==
  IF Len(parts) < 2 THEN IndexPanic
  ELSE IF parts[2] = "" THEN [tag |-> "None"]
  ELSE LET fields == Split(parts[2], ":") IN
       IF Len(fields) < 2 THEN IndexPanic
       ELSE [tag |-> "UserPass", username |-> fields[1], password |-> fields[2]]

\* `match client.estimate_fee(1)`.
check_estimate_fee(client, lib) ==
  LET f == lib.estimate_fee IN
  [ ret |-> IF f.ok THEN [tag |-> "Ok", value |-> TRUE]
            ELSE S5Error_new("Network", f.text),
    trace |-> << [fn |-> "estimate_fee", arg |-> [client |-> client, target |-> 1], result |-> f] >> ]

\* Returns [ret, trace].
_check_client(net, node_address, lib) ==
  LET proto == check_protocol(node_address) IN
  IF proto = "Electrum" THEN
    LET config == [variant |-> "Electrum",
                   conf |-> [url |-> node_address, socks5 |-> None, retry |-> 1,
                             timeout |-> Some(5), stop_gap |-> 1000]]
        c == call_create_blockchain_client(config, lib)
    IN
    IF c.ret.tag # "Ok" THEN [ret |-> S5Error_new("Internal", c.ret.message), trace |-> c.trace]
    ELSE LET f == check_estimate_fee(c.ret.client, lib) IN
         [ret |-> f.ret, trace |-> c.trace \o f.trace]
  ELSE IF proto = "Rpc" THEN
    LET parts == Split(node_address, "?auth=")
        auth == check_auth(parts)
    IN
    IF auth.tag = "Panic" THEN [ret |-> auth, trace |-> <<>>]
    ELSE
      LET config == [variant |-> "Rpc",
                     conf |-> [url |-> parts[1], auth |-> auth, network |-> net,
                               wallet_name |-> "ping", skip_blocks |-> None]]
          c == call_create_blockchain_client(config, lib)
      IN
      IF c.ret.tag # "Ok" THEN [ret |-> S5Error_new("Internal", c.ret.message), trace |-> c.trace]
      ELSE LET f == check_estimate_fee(c.ret.client, lib) IN
           [ret |-> f.ret, trace |-> c.trace \o f.trace]
  ELSE [ret |-> S5Error_new("Internal", "Invalid Node Address."), trace |-> <<>>]

(***************************************************************************)
(* Inputs                                                                  *)
(***************************************************************************)
\* Pieces of descriptor text: the halves of the two key markers, and the wildcard.
DescFrags == {"xp", "ub", "rv", "/*"}

\* Pieces of node address text.
AddrFrags == {"electrum", "http", "default", "?auth=", "u:p", ":"}

\* The texts made of exactly n fragments of F.
RECURSIVE Texts(_, _)
Texts(F, n) ==
  IF n = 0 THEN {""} ELSE {t \o f : t \in Texts(F, n - 1), f \in F}

\* The texts made of at most n fragments of F.
TextsUpTo(F, n) == UNION {Texts(F, k) : k \in 0..n}

Descriptors == TextsUpTo(DescFrags, MaxFrags)

Addresses == TextsUpTo(AddrFrags, MaxFrags)

\* The (descriptor, node address) pairs made of at most MaxFrags fragments in all.
NewInputs ==
  UNION { {<<d, a>> : d \in Texts(DescFrags, k), a \in TextsUpTo(AddrFrags, MaxFrags - k)}
          : k \in 0..MaxFrags }

Proxies == {None, Some("127.0.0.1:9050")}

Networks == {"Bitcoin", "Testnet"}

\* The calls a caller can make, with their arguments.
NewCalls ==
  { [op |-> "new", descriptor |-> in[1], node_address |-> in[2], socks5 |-> socks5]
    : in \in NewInputs, socks5 \in Proxies }

NewOfflineCalls == {[op |-> "new_offline", descriptor |-> d] : d \in Descriptors}

CheckClientCalls ==
  { [op |-> "_check_client", network |-> net, node_address |-> a]
    : net \in Networks, a \in Addresses }

(***************************************************************************)
(* The state machine: a call is made (Init), then it runs to its end.      *)
(***************************************************************************)
Init ==
  /\ call \in NewCalls \cup NewOfflineCalls \cup CheckClientCalls
  /\ ret = [tag |-> "pending"]
  /\ trace = <<>>

New ==
  /\ ret.tag = "pending"
  /\ call.op = "new"
  /\ \E w \in WalletNameResults, c \in FromConfigResults :
       LET lib == [wallet_name |-> w, from_config |-> c]
           r == WalletConfig_new(call.descriptor, call.node_address, call.socks5, lib)
       IN
       /\ ret' = r.ret
       /\ trace' = r.trace
       /\ UNCHANGED call

NewOffline ==
  /\ ret.tag = "pending"
  /\ call.op = "new_offline"
  /\ ret' = WalletConfig_new_offline(call.descriptor)
  /\ UNCHANGED <<call, trace>>

CheckClient ==
  /\ ret.tag = "pending"
  /\ call.op = "_check_client"
  /\ \E c \in FromConfigResults, f \in EstimateFeeResults :
       LET lib == [from_config |-> c, estimate_fee |-> f]
           r == _check_client(call.network, call.node_address, lib)
       IN
       /\ ret' = r.ret
       /\ trace' = r.trace
       /\ UNCHANGED call

Next == New \/ NewOffline \/ CheckClient

Spec == Init /\ [][Next]_vars

(***************************************************************************)
(* Vocabulary of the properties.                                           *)
(***************************************************************************)
\* The entry point whose call has ended, "none" while the call is pending.
Op == IF ret.tag = "pending" THEN "none" ELSE call.op

\* pat occurs in s, said directly on positions.
Occurs(s, pat) ==
  \E i \in 1..(Len(s) - Len(pat) + 1) : SubSeq(s, i, i + Len(pat) - 1) = pat

\* The positions where pat starts in s.
Positions(s, pat) ==
  {i \in 1..(Len(s) - Len(pat) + 1) : SubSeq(s, i, i + Len(pat) - 1) = pat}

IsMainText(descriptor) == Occurs(descriptor, "xpub") \/ Occurs(descriptor, "xprv")

\* The address the dispatch of the observed call looks at.
DispatchedAddress ==
  IF Op = "new"
  THEN IF Occurs(call.node_address, "default")
       THEN IF IsMainText(call.descriptor)
            THEN "ssl://electrum.blockstream.info:50002"
            ELSE "ssl://electrum.blockstream.info:60002"
       ELSE call.node_address
  ELSE call.node_address

FromConfigFns == {"ElectrumBlockchain::from_config", "RpcBlockchain::from_config"}

\* Trace entries: the backend constructions, and those that failed.
Constructions == {i \in DOMAIN trace : trace[i].fn \in FromConfigFns}

FailedConstructions == {i \in Constructions : ~trace[i].result.ok}

FailedNaming ==
  {i \in DOMAIN trace : trace[i].fn = "wallet_name_from_descriptor" /\ ~trace[i].result.ok}

ClientCalls == {i \in DOMAIN trace : trace[i].fn = "create_blockchain_client"}

RelayCalls == {i \in ClientCalls : trace[i].arg.variant = "Electrum"}

FullNodeCalls == {i \in ClientCalls : trace[i].arg.variant = "Rpc"}

\* The failure is the backend's own low-level I/O error variant.
OwnIoFailure(e) ==
  \/ /\ e.fn = "ElectrumBlockchain::from_config"
     /\ e.result.err.variant = "Electrum" /\ e.result.err.inner = "IOError"
  \/ /\ e.fn = "RpcBlockchain::from_config"
     /\ e.result.err.variant = "Rpc" /\ e.result.err.inner = "Io"

\* The full-node branch was entered: its auth parsing panicked, or one of its calls was made.
FullNodeEntered ==
  \/ ret.tag = "Panic"
  \/ FullNodeCalls # {}
  \/ \E i \in DOMAIN trace :
       trace[i].fn \in {"wallet_name_from_descriptor", "RpcBlockchain::from_config"}

\* The address has the one-delimiter shape base?auth=segment; its two parts.
AuthAt(a) == CHOOSE i \in Positions(a, "?auth=") : TRUE

BaseOf(a) == SubSeq(a, 1, AuthAt(a) - 1)

SegmentOf(a) == SubSeq(a, AuthAt(a) + Len("?auth="), Len(a))

\* The text before the first colon of seg, and all of the text after it.
FirstColon(seg) == CHOOSE i \in Positions(seg, ":") : \A j \in Positions(seg, ":") : i <= j

BeforeFirstColon(seg) == SubSeq(seg, 1, FirstColon(seg) - 1)

AfterFirstColon(seg) == SubSeq(seg, FirstColon(seg) + 1, Len(seg))

(***************************************************************************)
(* C1                                                                      *)
(***************************************************************************)
\* C1: when the backend client construction of WalletConfig::new fails, the
\* error returned has kind Network if the failure is the backend's own I/O
\* error variant (Electrum IOError on the relay path, Rpc Io on the full-node
\* path) and kind Internal for every other construction failure.
C1_ConstructionFailureKind ==
  Op = "new" =>
    \A i \in FailedConstructions :
      /\ ret.tag = "Err"
      /\ ret.kind = IF OwnIoFailure(trace[i]) THEN "Network" ELSE "Internal"

(***************************************************************************)
(* C2                                                                      *)
(***************************************************************************)
\* C2: resolution is all-or-nothing.  Every Ok value of WalletConfig::new
\* carries Some(handle), the handle the backend construction returned; a
\* WalletConfig with client None comes only from new_offline; and when the
\* wallet-identifier derivation or the client construction fails, new
\* returns Err, a value with no descriptors and no network.
C2_AllOrNothing ==
  /\ (Op = "new" /\ ret.tag = "Ok") =>
       /\ ret.client # None
       /\ Len(ret.client) = 1
       /\ \E i \in Constructions :
            /\ trace[i].result.ok
            /\ ret.client[1].conf = trace[i].arg
  /\ (Op \in {"new", "new_offline"} /\ ret.tag = "Ok" /\ ret.client = None) =>
       Op = "new_offline"
  /\ (Op = "new" /\ (FailedConstructions # {} \/ FailedNaming # {})) =>
       /\ ret.tag = "Err"
       /\ DOMAIN ret = {"tag", "kind", "message"}

C2_Witness ==
  /\ Op = "new"
  /\ FailedConstructions # {}
  /\ ret.tag = "Err"

(***************************************************************************)
(* C3                                                                      *)
(***************************************************************************)
\* C3: a node address that after sentinel substitution contains neither
\* "electrum" nor "http" makes WalletConfig::new return the Internal error
\* "Invalid Node Address." without deriving a wallet identifier and without
\* calling create_blockchain_client.
C3_InvalidNodeAddress ==
  ( /\ Op = "new"
    /\ ~Occurs(DispatchedAddress, "electrum")
    /\ ~Occurs(DispatchedAddress, "http") ) =>
      /\ ret = [tag |-> "Err", kind |-> "Internal", message |-> "Invalid Node Address."]
      /\ trace = <<>>

C3_Witness ==
  /\ Op = "new"
  /\ call.node_address = "?auth=u:p"
  /\ ret.tag = "Err"
  /\ ret.message = "Invalid Node Address."

(***************************************************************************)
(* C4                                                                      *)
(***************************************************************************)
\* C4: for a full-node-form address whose auth segment is malformed (no
\* "?auth=" delimiter, or a non-empty credential segment without a colon),
\* WalletConfig::new and _check_client return an error of kind Internal;
\* they do not abort on an index out of range.
C4_MalformedAuthIsAnError ==
  ( /\ Op \in {"new", "_check_client"}
    /\ Occurs(DispatchedAddress, "http")
    /\ ~Occurs(DispatchedAddress, "electrum")
    /\ \/ Positions(DispatchedAddress, "?auth=") = {}
       \/ /\ Cardinality(Positions(DispatchedAddress, "?auth=")) = 1
          /\ SegmentOf(DispatchedAddress) # ""
          /\ ~Occurs(SegmentOf(DispatchedAddress), ":") ) =>
      /\ ret.tag = "Err"
      /\ ret.kind = "Internal"

(***************************************************************************)
(* C5                                                                      *)
(***************************************************************************)
\* C5: for a full-node-form address base?auth=segment, the configuration
\* WalletConfig::new hands to the backend has the text before "?auth=" as its
\* URL, no credentials when segment is empty, and otherwise the text of
\* segment before its first colon as username and all of the text after that
\* first colon, further colons included, as password.
C5_AuthParsing ==
  ( /\ Op = "new"
    /\ Occurs(DispatchedAddress, "http")
    /\ ~Occurs(DispatchedAddress, "electrum")
    /\ Cardinality(Positions(DispatchedAddress, "?auth=")) = 1
    /\ Occurs(BaseOf(DispatchedAddress), "http")
    /\ \/ SegmentOf(DispatchedAddress) = ""
       \/ Occurs(SegmentOf(DispatchedAddress), ":") ) =>
      \A i \in FullNodeCalls :
        LET conf == trace[i].arg.conf
            seg == SegmentOf(DispatchedAddress)
        IN /\ conf.url = BaseOf(DispatchedAddress)
           /\ conf.auth =
                IF seg = "" THEN [tag |-> "None"]
                ELSE [tag |-> "UserPass",
                      username |-> BeforeFirstColon(seg),
                      password |-> AfterFirstColon(seg)]

(***************************************************************************)
(* C6                                                                      *)
(***************************************************************************)
\* C6: when the node address given to WalletConfig::new contains "default"
\* anywhere, the client is built through the relay backend against the fixed
\* mainnet default if the descriptor is a Main one and against the fixed
\* testnet default otherwise, whatever else the address contains; an address
\* without the sentinel is used as it is.
C6_SentinelDefault ==
  Op = "new" =>
    IF Occurs(call.node_address, "default")
    THEN /\ ret.tag # "Panic"
         /\ Cardinality(ClientCalls) = 1
         /\ FullNodeCalls = {}
         /\ \A i \in DOMAIN trace : trace[i].fn # "wallet_name_from_descriptor"
         /\ \A i \in RelayCalls :
              trace[i].arg.conf.url =
                IF IsMainText(call.descriptor)
                THEN "ssl://electrum.blockstream.info:50002"
                ELSE "ssl://electrum.blockstream.info:60002"
    ELSE /\ \A i \in RelayCalls : trace[i].arg.conf.url = call.node_address
         /\ \A i \in FullNodeCalls :
              LET url == trace[i].arg.conf.url IN
              /\ Len(url) + Len("?auth=") <= Len(call.node_address)
              /\ SubSeq(call.node_address, 1, Len(url) + Len("?auth=")) = url \o "?auth="
         /\ (Occurs(call.node_address, "electrum") => RelayCalls # {})

C6_Witness ==
  /\ Op = "new"
  /\ Occurs(call.node_address, "default")
  /\ Occurs(call.node_address, "http")
  /\ IsMainText(call.descriptor)
  /\ RelayCalls # {}
  /\ ret.tag = "Ok"

(***************************************************************************)
(* C7                                                                      *)
(***************************************************************************)
\* C7: new_offline always succeeds with client None, and whenever
\* WalletConfig::new succeeds its deposit_desc, change_desc and network are
\* those new_offline gives for the same descriptor.
C7_OfflineMatchesOnline ==
  /\ Op = "new_offline" => (ret.tag = "Ok" /\ ret.client = None)
  /\ (Op = "new" /\ ret.tag = "Ok") =>
       LET off == WalletConfig_new_offline(call.descriptor) IN
       /\ off.tag = "Ok"
       /\ off.client = None
       /\ ret.deposit_desc = off.deposit_desc
       /\ ret.change_desc = off.change_desc
       /\ ret.network = off.network

C7_Witness ==
  /\ Op = "new"
  /\ ret.tag = "Ok"
  /\ Occurs(call.descriptor, "/*")
  /\ ret.network = "Bitcoin"
  /\ ret.deposit_desc # ret.change_desc

(***************************************************************************)
(* C8                                                                      *)
(***************************************************************************)
\* C8: the network of a resolved configuration is Bitcoin (Main) exactly when
\* the descriptor text contains "xpub" or "xprv", and Testnet otherwise,
\* whatever the node address and the proxy; the network handed to the
\* full-node backend is the same one.
C8_NetworkInference ==
  Op \in {"new", "new_offline"} =>
    /\ ret.tag = "Ok" =>
         ret.network = IF IsMainText(call.descriptor) THEN "Bitcoin" ELSE "Testnet"
    /\ \A i \in FullNodeCalls :
         trace[i].arg.conf.network =
           IF IsMainText(call.descriptor) THEN "Bitcoin" ELSE "Testnet"

C8_Witness ==
  /\ Op = "new"
  /\ ret.tag = "Ok"
  /\ Occurs(call.descriptor, "xprv")
  /\ ~Occurs(call.descriptor, "xpub")
  /\ call.socks5 # None
  /\ ret.network = "Bitcoin"

(***************************************************************************)
(* C9                                                                      *)
(***************************************************************************)
\* C9: for a descriptor with exactly one "/*", deposit_desc is the descriptor
\* with that marker replaced by "/0/*" and change_desc the descriptor with it
\* replaced by "/1/*", whatever the network; for a descriptor without the
\* marker both are the descriptor itself; new_offline raises no error.
C9_BranchDescriptors ==
  Op \in {"new", "new_offline"} =>
    /\ Op = "new_offline" => ret.tag = "Ok"
    /\ ret.tag = "Ok" =>
         LET d == call.descriptor
             W == Positions(d, "/*")
         IN /\ Cardinality(W) = 1 =>
                 LET i == CHOOSE k \in W : TRUE
                     before == SubSeq(d, 1, i - 1)
                     after == SubSeq(d, i + 2, Len(d))
                 IN /\ ret.deposit_desc = before \o "/0/*" \o after
                    /\ ret.change_desc = before \o "/1/*" \o after
            /\ W = {} => (ret.deposit_desc = d /\ ret.change_desc = d)

C9_Witness ==
  /\ Op = "new"
  /\ ret.tag = "Ok"
  /\ Cardinality(Positions(call.descriptor, "/*")) = 1
  /\ ret.network = "Bitcoin"
  /\ ret.change_desc = "xpub/1/*"

(***************************************************************************)
(* C10                                                                     *)
(***************************************************************************)
\* C10: the relay token has precedence.  For an address containing
\* "electrum" (with or without "http"), WalletConfig::new and _check_client
\* build a relay configuration only: no auth parsing, no wallet-identifier
\* derivation, no full-node construction.  The full-node branch is entered
\* exactly when the address contains "http" and not "electrum".  A failed
\* construction is not followed by another attempt.
C10_RelayPrecedence ==
  Op \in {"new", "_check_client"} =>
    /\ Occurs(DispatchedAddress, "electrum") =>
         (Cardinality(RelayCalls) = 1 /\ ~FullNodeEntered)
    /\ FullNodeEntered <=>
         (Occurs(DispatchedAddress, "http") /\ ~Occurs(DispatchedAddress, "electrum"))
    /\ Cardinality(ClientCalls) <= 1
    /\ Cardinality(Constructions) <= 1
    /\ \A i \in ClientCalls, j \in Constructions :
         (trace[i].arg.variant = "Electrum") <=> (trace[j].fn = "ElectrumBlockchain::from_config")

C10_Witness ==
  /\ Op = "_check_client"
  /\ Occurs(call.node_address, "electrum")
  /\ Occurs(call.node_address, "http")
  /\ Occurs(call.node_address, "?auth=")
  /\ FailedConstructions # {}
  /\ ret.tag = "Err"

====
